---- MODULE Spec2Model ----
(***************************************************************************)
(* EventDispatcher<EventEnum, std::shared_mutex> of src/main.cpp: a map    *)
(* from event category to a priority-ordered vector of type-erased         *)
(* handlers, guarded by one shared_mutex, plus an atomic id counter.       *)
(* Threads call registerHandler, unregisterHandler and dispatch.           *)
(***************************************************************************)
EXTENDS Integers, Sequences, FiniteSets, TLC

\* ------------------------------------------------------------------ bounds
MaxRegs == 3          \* registrations made in one run
MaxMixedRegs == 2     \* the same, in runs that mix argument type lists
MaxPriority == 1      \* priorities range over -1 .. MaxPriority

\* ------------------------------------------------------------------ domains
EventType == {"EventA", "EventB"}
Threads == {"t1", "t2"}
Priorities == (0 - 1) .. MaxPriority
Signatures == {"int", "string"}
ArgValues == {7, 42}
\* runs that do not look at argument values dispatch one value, at one priority
OneValue == {42}
OnePriority == {0}
\* what a tuple of another type reads as once reinterpret_cast to Args...
ReinterpretedValues == {0}
NoThread == "none"

\* the argument type list the drivers use on each category
AgreedSignatures == [e \in EventType |-> IF e = "EventA" THEN {"int"} ELSE {"string"}]
\* callers that register any argument type list on any category
AnySignatures == [e \in EventType |-> Signatures]

VARIABLES
    handlers_,      \* map: category (if it has a vector) -> sequence of handlers
    next_id_,       \* std::atomic<HandlerId>
    writer,         \* mutex_: the thread holding it exclusively, or NoThread
    readers,        \* mutex_: the threads holding it shared
    pc,             \* per thread: where it is in its current call
    event,          \* per thread: the `event` argument of the current call
    priority,       \* per thread: registerHandler's `priority`
    sig,            \* per thread: the Args... of registerHandler / dispatch
    id,             \* per thread: unregisterHandler's `id`; registerHandler's result
    tup,            \* per thread: the value held by dispatch's `tup`
    it,             \* per thread: position of dispatch's range-for in the vector
    invoked,        \* per thread: the handler calls made so far by its dispatch
    erased,         \* per thread: how many entries its unregister erased
    aborted,        \* the process was killed by a wild reinterpret_cast
    issued,         \* history: every id returned, with its category, in insertion order
    unregistered    \* history: ids whose unregister on their own category returned

vars == <<handlers_, next_id_, writer, readers, pc, event, priority, sig, id,
          tup, it, invoked, erased, aborted, issued, unregistered>>

\* ------------------------------------------------------------------ helpers
\* HandlerBase(id_, priority_) + Handler<Args...>
Handler(i, p, s) == [id |-> i, priority |-> p, sig |-> s]

\* a comparator that also stops at entries of the same priority
CompNotStrict(p, h) == p >= h.priority

\* the comparator given to std::upper_bound: comp(p, h)
Comp(p, h) == p > h.priority

\* std::upper_bound(first, last, value, comp): binary search for the first
\* element for which comp(value, element) holds
RECURSIVE UpperBoundFrom(_, _, _, _)
UpperBoundFrom(vec, p, first, len) ==
    IF len <= 0 THEN first
    ELSE LET half == len \div 2
             mid == first + half
         IN IF Comp(p, vec[mid])
            THEN UpperBoundFrom(vec, p, first, half)
            ELSE UpperBoundFrom(vec, p, mid + 1, len - half - 1)

UpperBound(vec, p) == UpperBoundFrom(vec, p, 1, Len(vec))

\* an assignment through the iterator, which replaces the entry it points at
InsertAtOverwrites(vec, pos, h) ==
    SubSeq(vec, 1, pos - 1) \o <<h>> \o SubSeq(vec, pos + 1, Len(vec))

\* vec.insert(it, handler)
InsertAt(vec, pos, h) ==
    SubSeq(vec, 1, pos - 1) \o <<h>> \o SubSeq(vec, pos, Len(vec))

\* an erase that also drops the entries registered after id
EraseIdAndLater(vec, i) == SelectSeq(vec, LAMBDA h : h.id < i)

\* an erase that removes nothing
EraseIdNothing(vec, i) == vec

\* vec.erase(std::remove_if(..., h->id == id), vec.end())
EraseId(vec, i) == SelectSeq(vec, LAMBDA h : h.id # i)

\* handlers_[event]: the vector, default-constructed when absent
VecOf(m, e) == IF e \in DOMAIN m THEN m[e] ELSE <<>>

\* handlers_.find(event) != handlers_.end()
Found(m, e) == e \in DOMAIN m

\* a lookup by handlers_[event], which inserts an empty vector when absent
AfterFindInserts(m, e) == [x \in DOMAIN m \cup {e} |-> IF x \in DOMAIN m THEN m[x] ELSE <<>>]

\* handlers_ after handlers_.find(event): find inserts nothing
AfterFind(m, e) == m

\* a counter that is read but not advanced
NextIdStuck(n) == n

\* next_id_++
NextIdAfter(n) == n + 1

\* an iterator advanced twice per round
NextPosSkips(k) == k + 2

\* ++iterator of the range-for
NextPos(k) == k + 1

\* an exclusive lock that does not wait for the shared holders
CanLockExclusiveIgnoresReaders == writer = NoThread

\* std::unique_lock lock(mutex_) can be taken
CanLockExclusive == writer = NoThread /\ readers = {}

\* a plain mutex: one holder at a time, readers included
CanLockSharedAlone == writer = NoThread /\ readers = {}

\* a shared lock that does not wait for the exclusive holder
CanLockSharedAlways == TRUE

\* std::shared_lock lock(mutex_) can be taken
CanLockShared == writer = NoThread

\* Handler<Args...>::call(void* args): the tuple read back has the handler's type
Matches(h, s) == h.sig = s

InRegister(t) == pc[t] \in {"reg_lock", "reg_body", "reg_ret"}
InUnregister(t) == pc[t] \in {"unreg_lock", "unreg_body", "unreg_ret"}
InDispatch(t) == pc[t] \in {"disp_lock", "disp_loop", "disp_call", "disp_ret"}

\* ------------------------------------------------------------------ Init
Init ==
    /\ handlers_ = <<>>
    /\ next_id_ = 1
    /\ writer = NoThread
    /\ readers = {}
    /\ pc = [t \in Threads |-> "idle"]
    /\ event = [t \in Threads |-> "EventA"]
    /\ priority = [t \in Threads |-> 0]
    /\ sig = [t \in Threads |-> "int"]
    /\ id = [t \in Threads |-> 0]
    /\ tup = [t \in Threads |-> 0]
    /\ it = [t \in Threads |-> 0]
    /\ invoked = [t \in Threads |-> <<>>]
    /\ erased = [t \in Threads |-> 0]
    /\ aborted = FALSE
    /\ issued = <<>>
    /\ unregistered = {}

\* the locals of thread t after a step; those out of scope hold their defaults
Locals(t, p, e, pr, s, i, v, k, inv, er) ==
    /\ pc' = [pc EXCEPT ![t] = p]
    /\ event' = [event EXCEPT ![t] = e]
    /\ priority' = [priority EXCEPT ![t] = pr]
    /\ sig' = [sig EXCEPT ![t] = s]
    /\ id' = [id EXCEPT ![t] = i]
    /\ tup' = [tup EXCEPT ![t] = v]
    /\ it' = [it EXCEPT ![t] = k]
    /\ invoked' = [invoked EXCEPT ![t] = inv]
    /\ erased' = [erased EXCEPT ![t] = er]

\* no call, or a call that has not read its arguments yet
NoLocals(t, p) == Locals(t, p, "EventA", 0, "int", 0, 0, 0, <<>>, 0)

\* ------------------------------------------------------------------ registerHandler
\* a thread calls registerHandler and reaches std::unique_lock lock(mutex_)
RegisterCall(t, maxRegs) ==
    /\ ~aborted /\ pc[t] = "idle"
    /\ next_id_ + Cardinality({u \in Threads : pc[u] \in {"reg_lock", "reg_body"}})
          <= maxRegs
    /\ NoLocals(t, "reg_lock")
    /\ UNCHANGED <<handlers_, next_id_, writer, readers, aborted, issued,
                   unregistered>>

\* the lock is taken; the arguments are first read from here on
RegisterLock(t, sigs, prios) ==
    /\ ~aborted /\ pc[t] = "reg_lock"
    /\ CanLockExclusive
    /\ writer' = t
    /\ \E e \in EventType, p \in prios :
          \E s \in sigs[e] : Locals(t, "reg_body", e, p, s, 0, 0, 0, <<>>, 0)
    /\ UNCHANGED <<handlers_, next_id_, readers, aborted, issued, unregistered>>

\* next_id_++, make_unique, handlers_[event], upper_bound, insert
RegisterBody(t) ==
    /\ ~aborted /\ pc[t] = "reg_body"
    /\ LET newId == next_id_
           h == Handler(newId, priority[t], sig[t])
           vec == VecOf(handlers_, event[t])
           pos == UpperBound(vec, priority[t])
           newVec == InsertAt(vec, pos, h)
       IN /\ next_id_' = NextIdAfter(next_id_)
          /\ handlers_' = [e \in DOMAIN handlers_ \cup {event[t]} |->
                              IF e = event[t] THEN newVec ELSE handlers_[e]]
          /\ Locals(t, "reg_ret", event[t], priority[t], sig[t], newId, 0, 0, <<>>, 0)
          /\ issued' = Append(issued, [id |-> newId, event |-> event[t]])
    /\ UNCHANGED <<writer, readers, aborted, unregistered>>

\* return id; the unique_lock is released
RegisterReturn(t) ==
    /\ ~aborted /\ pc[t] = "reg_ret"
    /\ writer' = NoThread
    /\ NoLocals(t, "idle")
    /\ UNCHANGED <<handlers_, next_id_, readers, aborted, issued, unregistered>>

\* ------------------------------------------------------------------ unregisterHandler
UnregisterCall(t) ==
    /\ ~aborted /\ pc[t] = "idle"
    /\ NoLocals(t, "unreg_lock")
    /\ UNCHANGED <<handlers_, next_id_, writer, readers, aborted, issued,
                   unregistered>>

UnregisterLock(t) ==
    /\ ~aborted /\ pc[t] = "unreg_lock"
    /\ CanLockExclusive
    /\ writer' = t
    /\ \E e \in EventType, i \in 1 .. MaxRegs :
          Locals(t, "unreg_body", e, 0, "int", i, 0, 0, <<>>, 0)
    /\ UNCHANGED <<handlers_, next_id_, readers, aborted, issued, unregistered>>

\* an unregister that ignores the category and erases the id from every list
UnregisterBodyEveryCategory(t) ==
    /\ ~aborted /\ pc[t] = "unreg_body"
    /\ handlers_' = [e \in DOMAIN handlers_ |-> EraseId(handlers_[e], id[t])]
    /\ Locals(t, "unreg_ret", event[t], 0, "int", id[t], 0, 0, <<>>,
              Len(VecOf(handlers_, event[t]))
                 - Len(EraseId(VecOf(handlers_, event[t]), id[t])))
    /\ UNCHANGED <<next_id_, writer, readers, aborted, issued, unregistered>>

\* find, remove_if + erase
UnregisterBody(t) ==
    /\ ~aborted /\ pc[t] = "unreg_body"
    /\ IF Found(handlers_, event[t])
       THEN LET newVec == EraseId(handlers_[event[t]], id[t])
            IN /\ handlers_' = [handlers_ EXCEPT ![event[t]] = newVec]
               /\ Locals(t, "unreg_ret", event[t], 0, "int", id[t], 0, 0, <<>>,
                         Len(handlers_[event[t]]) - Len(newVec))
       ELSE /\ handlers_' = handlers_
            /\ Locals(t, "unreg_ret", event[t], 0, "int", id[t], 0, 0, <<>>, 0)
    /\ UNCHANGED <<next_id_, writer, readers, aborted, issued, unregistered>>

\* return; the unique_lock is released
UnregisterReturn(t) ==
    /\ ~aborted /\ pc[t] = "unreg_ret"
    /\ writer' = NoThread
    /\ unregistered' =
          IF \E k \in 1 .. Len(issued) :
                issued[k].id = id[t] /\ issued[k].event = event[t]
          THEN unregistered \cup {id[t]}
          ELSE unregistered
    /\ NoLocals(t, "idle")
    /\ UNCHANGED <<handlers_, next_id_, readers, aborted, issued>>

\* ------------------------------------------------------------------ dispatch
DispatchCall(t) ==
    /\ ~aborted /\ pc[t] = "idle"
    /\ NoLocals(t, "disp_lock")
    /\ UNCHANGED <<handlers_, next_id_, writer, readers, aborted, issued,
                   unregistered>>

\* a loop that stops one entry before end()
LoopAtStopsEarly(vec, k) == IF k < Len(vec) THEN "disp_loop" ELSE "disp_ret"

\* where the range-for stands with its iterator at position k of vec
LoopAt(vec, k) == IF k <= Len(vec) THEN "disp_loop" ELSE "disp_ret"

\* shared_lock, handlers_.find(event), then the early return, or tup and begin()
DispatchLock(t, sigs, vals) ==
    /\ ~aborted /\ pc[t] = "disp_lock"
    /\ CanLockShared
    /\ readers' = readers \cup {t}
    /\ \E e \in EventType, v \in vals :
        \E s \in sigs[e] :
          /\ handlers_' = AfterFind(handlers_, e)
          /\ IF Found(handlers_, e)
             THEN Locals(t, LoopAt(handlers_[e], 1), e, 0, s, 0, v, 1, <<>>, 0)
             ELSE Locals(t, "disp_ret", e, 0, s, 0, v, 0, <<>>, 0)
    /\ UNCHANGED <<next_id_, writer, aborted, issued, unregistered>>

\* handler->call(&tup) on a handler of the dispatched argument type list
DispatchLoop(t) ==
    /\ ~aborted /\ pc[t] = "disp_loop"
    /\ it[t] <= Len(handlers_[event[t]])
    /\ Matches(handlers_[event[t]][it[t]], sig[t])
    /\ invoked' = [invoked EXCEPT ![t] =
                      Append(@, [id |-> handlers_[event[t]][it[t]].id, arg |-> tup[t]])]
    /\ pc' = [pc EXCEPT ![t] = "disp_call"]
    /\ UNCHANGED <<handlers_, next_id_, writer, readers, event, priority, sig, id,
                   tup, it, erased, aborted, issued, unregistered>>

\* handler->call(&tup) on a handler of another argument type list: undefined
\* behaviour; func runs on reinterpreted memory, or the process dies
WildCall(t) ==
    /\ ~aborted /\ pc[t] = "disp_loop"
    /\ it[t] <= Len(handlers_[event[t]])
    /\ ~Matches(handlers_[event[t]][it[t]], sig[t])
    /\ \/ /\ \E a \in ReinterpretedValues :
                invoked' = [invoked EXCEPT ![t] =
                      Append(@, [id |-> handlers_[event[t]][it[t]].id, arg |-> a])]
          /\ pc' = [pc EXCEPT ![t] = "disp_call"]
          /\ aborted' = aborted
       \/ /\ aborted' = TRUE
          /\ UNCHANGED <<pc, invoked>>
    /\ UNCHANGED <<handlers_, next_id_, writer, readers, event, priority, sig, id,
                   tup, it, erased, issued, unregistered>>

\* func returns; ++iterator, compared with end()
HandlerReturn(t) ==
    /\ ~aborted /\ pc[t] = "disp_call"
    /\ it' = [it EXCEPT ![t] = NextPos(@)]
    /\ pc' = [pc EXCEPT ![t] = LoopAt(handlers_[event[t]], NextPos(it[t]))]
    /\ UNCHANGED <<handlers_, next_id_, writer, readers, event, priority, sig, id,
                   tup, invoked, erased, aborted, issued, unregistered>>

\* a lock taken by hand, with a return that forgets to unlock
DispatchReturnKeepsLock(t) ==
    /\ ~aborted /\ pc[t] = "disp_ret"
    /\ NoLocals(t, "idle")
    /\ UNCHANGED <<handlers_, next_id_, writer, readers, aborted, issued,
                   unregistered>>

\* return; the shared_lock is released
DispatchReturn(t) ==
    /\ ~aborted /\ pc[t] = "disp_ret"
    /\ readers' = readers \ {t}
    /\ NoLocals(t, "idle")
    /\ UNCHANGED <<handlers_, next_id_, writer, aborted, issued, unregistered>>

\* a dispatcher that swallows the error and goes on with the loop
AfterThrowGoesOn(vec, k) == LoopAt(vec, k)

\* where dispatch stands once func has thrown: nothing catches, the error leaves
\* the range-for and the function
AfterThrow(vec, k) == "disp_unwind"

\* a lock taken by hand, which an error leaves held
AfterUnwindStillHeld(rs, t) == rs

\* the shared holders once stack unwinding has run ~shared_lock
AfterUnwind(rs, t) == rs \ {t}

\* func throws out of handler->call(&tup)
HandlerThrow(t) ==
    /\ ~aborted /\ pc[t] = "disp_call"
    /\ pc' = [pc EXCEPT ![t] = AfterThrow(handlers_[event[t]], it[t])]
    /\ UNCHANGED <<handlers_, next_id_, writer, readers, event, priority, sig, id,
                   tup, it, invoked, erased, aborted, issued, unregistered>>

\* the error leaves dispatch: tup and the shared_lock are destroyed, the caller
\* of dispatch receives the error
DispatchUnwind(t) ==
    /\ ~aborted /\ pc[t] = "disp_unwind"
    /\ readers' = AfterUnwind(readers, t)
    /\ NoLocals(t, "idle")
    /\ UNCHANGED <<handlers_, next_id_, writer, aborted, issued, unregistered>>

\* func, running under dispatch's shared_lock, calls registerHandler on the
\* same dispatcher: the thread arrives at std::unique_lock lock(mutex_) still
\* a shared holder
HandlerRegisters(t, maxRegs) ==
    /\ ~aborted /\ pc[t] = "disp_call"
    /\ next_id_ + Cardinality({u \in Threads : pc[u] \in {"reg_lock", "reg_body"}})
          <= maxRegs
    /\ NoLocals(t, "reg_lock")
    /\ UNCHANGED <<handlers_, next_id_, writer, readers, aborted, issued,
                   unregistered>>

\* func calls unregisterHandler on the same dispatcher
HandlerUnregisters(t) ==
    /\ ~aborted /\ pc[t] = "disp_call"
    /\ NoLocals(t, "unreg_lock")
    /\ UNCHANGED <<handlers_, next_id_, writer, readers, aborted, issued,
                   unregistered>>

\* ------------------------------------------------------------------ specifications
\* callers keep to one argument type list per category, as the drivers do
Next ==
    \E t \in Threads :
        \/ RegisterCall(t, MaxRegs)
        \/ RegisterLock(t, AgreedSignatures, Priorities)
        \/ RegisterBody(t)
        \/ RegisterReturn(t)
        \/ UnregisterCall(t)
        \/ UnregisterLock(t)
        \/ UnregisterBody(t)
        \/ UnregisterReturn(t)
        \/ DispatchCall(t)
        \/ DispatchLock(t, AgreedSignatures, OneValue)
        \/ DispatchLoop(t)
        \/ HandlerReturn(t)
        \/ DispatchReturn(t)

Spec == Init /\ [][Next]_vars

\* callers mix argument type lists on a category
NextMixed ==
    \E t \in Threads :
        \/ RegisterCall(t, MaxMixedRegs)
        \/ RegisterLock(t, AnySignatures, OnePriority)
        \/ RegisterBody(t)
        \/ RegisterReturn(t)
        \/ UnregisterCall(t)
        \/ UnregisterLock(t)
        \/ UnregisterBody(t)
        \/ UnregisterReturn(t)
        \/ DispatchCall(t)
        \/ DispatchLock(t, AnySignatures, ArgValues)
        \/ DispatchLoop(t)
        \/ WildCall(t)
        \/ HandlerReturn(t)
        \/ DispatchReturn(t)

SpecMixed == Init /\ [][NextMixed]_vars

\* handler bodies may throw
NextThrow ==
    \/ Next
    \/ \E t \in Threads : HandlerThrow(t) \/ DispatchUnwind(t)

SpecThrow == Init /\ [][NextThrow]_vars

\* handler bodies may call registerHandler and unregisterHandler
NextReentrant ==
    \/ Next
    \/ \E t \in Threads : HandlerRegisters(t, MaxRegs) \/ HandlerUnregisters(t)

SpecReentrant == Init /\ [][NextReentrant]_vars

\* what a thread inside a call does next: the scheduler runs every thread that
\* can run, while nothing makes a thread start a call
StepInCall(t) ==
    \/ RegisterLock(t, AgreedSignatures, OnePriority)
    \/ RegisterBody(t)
    \/ RegisterReturn(t)
    \/ UnregisterLock(t)
    \/ UnregisterBody(t)
    \/ UnregisterReturn(t)
    \/ DispatchLock(t, AgreedSignatures, OneValue)
    \/ DispatchLoop(t)
    \/ HandlerReturn(t)
    \/ DispatchReturn(t)

NextFair ==
    \E t \in Threads :
        \/ RegisterCall(t, MaxMixedRegs)
        \/ UnregisterCall(t)
        \/ DispatchCall(t)
        \/ StepInCall(t)

\* threads under a fair scheduler; std::shared_mutex promises no order among
\* the threads that wait for it
SpecFair == Init /\ [][NextFair]_vars /\ \A t \in Threads : WF_vars(StepInCall(t))

\* ------------------------------------------------------------------ properties
\* the position of handler id i in the order of insertion
IssuedAt(i) == CHOOSE k \in 1 .. Len(issued) : issued[k].id = i

\* h runs before g: higher priority, or the same priority and inserted earlier
Before(h, g) ==
    \/ h.priority > g.priority
    \/ h.priority = g.priority /\ IssuedAt(h.id) < IssuedAt(g.id)

Ids(seq) == [k \in 1 .. Len(seq) |-> seq[k].id]

\* the ids issued on category e / those of them not unregistered since
IssuedOn(e) == {issued[k].id : k \in {j \in 1 .. Len(issued) : issued[j].event = e}}
LiveOn(e) == IssuedOn(e) \ unregistered

\* the handler of category e that carries id i
HandlerOf(e, i) ==
    LET vec == VecOf(handlers_, e)
    IN vec[CHOOSE k \in 1 .. Len(vec) : vec[k].id = i]

\* seq holds each id of the set S exactly once, those that run first first
RunsEachOnceInOrder(seq, e, S) ==
    /\ Len(seq) = Cardinality(S)
    /\ {seq[k] : k \in 1 .. Len(seq)} = S
    /\ S \subseteq {VecOf(handlers_, e)[k].id : k \in 1 .. Len(VecOf(handlers_, e))}
    /\ \A j, k \in 1 .. Len(seq) :
          j < k => Before(HandlerOf(e, seq[j]), HandlerOf(e, seq[k]))

\* C1: whenever no thread holds the exclusive lock, every category's list is
\* sorted by priority descending and, among equal priorities, by insertion
\* order ascending, whatever registrations and unregistrations came before.
C1_ListsSorted ==
    writer = NoThread =>
        \A e \in DOMAIN handlers_ :
            \A j, k \in 1 .. Len(handlers_[e]) :
                j < k => Before(handlers_[e][j], handlers_[e][k])

\* C1 witness: after an unregister, a list holds two entries of the same
\* negative priority and the lock is free.
C1_Witness ==
    /\ writer = NoThread
    /\ unregistered # {}
    /\ \E e \in DOMAIN handlers_ :
          /\ Len(handlers_[e]) = 2
          /\ handlers_[e][1].priority = 0 - 1
          /\ handlers_[e][2].priority = 0 - 1

\* C2: with no handler of the category unregistered, a dispatch that is about
\* to return has invoked each handler registered on the category exactly once,
\* on its own thread, in descending priority order and, among equal
\* priorities, in registration order; no invocation is still running.
C2_DispatchOrder ==
    \A t \in Threads :
        (pc[t] = "disp_ret" /\ IssuedOn(event[t]) \cap unregistered = {}) =>
            RunsEachOnceInOrder(Ids(invoked[t]), event[t], IssuedOn(event[t]))

\* C2 witness: priorities -1 (id 1), 1 (id 2), 0 (id 3) registered in that
\* order on one category; the dispatch invoked 2, 3, 1.
C2_Witness ==
    \E t \in Threads :
        /\ pc[t] = "disp_ret"
        /\ unregistered = {}
        /\ Ids(invoked[t]) = <<2, 3, 1>>
        /\ HandlerOf(event[t], 1).priority = 0 - 1
        /\ HandlerOf(event[t], 2).priority = 1
        /\ HandlerOf(event[t], 3).priority = 0

\* C3: the ids issued are never 0, pairwise distinct and strictly increasing
\* in insertion order, the first being 1, across categories and across
\* unregistrations; the id a registerHandler call returns is the last issued.
C3_IdsUnique ==
    /\ \A k \in 1 .. Len(issued) : issued[k].id # 0
    /\ \A j, k \in 1 .. Len(issued) : j < k => issued[j].id < issued[k].id
    /\ Len(issued) >= 1 => issued[1].id = 1
    /\ \A t \in Threads :
          pc[t] = "reg_ret" => id[t] = issued[Len(issued)].id

\* C3 witness: a third registration returns after an earlier id was
\* unregistered, with ids issued on both categories.
C3_Witness ==
    \E t \in Threads :
        /\ pc[t] = "reg_ret"
        /\ Len(issued) = 3
        /\ unregistered # {}
        /\ id[t] \notin unregistered
        /\ \E j, k \in 1 .. Len(issued) : issued[j].event # issued[k].event

\* C4: unregisterHandler(category, id) removes exactly the entry with that id
\* from that category's list, the other entries keeping their order; when the
\* category has no list or the id is not in it, nothing changes and the call
\* still returns, so a second call with the same arguments changes nothing.
C4_UnregisterExact ==
    [][\A t \in Threads :
          (pc[t] = "unreg_body" /\ pc'[t] # "unreg_body") =>
              LET vec == VecOf(handlers_, event[t])
                  at == {k \in 1 .. Len(vec) : vec[k].id = id[t]}
              IN /\ pc'[t] = "unreg_ret"
                 /\ ~aborted'
                 /\ next_id_' = next_id_
                 /\ IF at = {}
                    THEN handlers_' = handlers_
                    ELSE \E k \in at :
                           handlers_' = [handlers_ EXCEPT ![event[t]] =
                              SubSeq(vec, 1, k - 1) \o SubSeq(vec, k + 1, Len(vec))]
    ]_vars

\* C4 witness: a second unregisterHandler call on an id already unregistered
\* from its category has run and erased nothing; another handler is still there.
C4_Witness ==
    \E t \in Threads :
        /\ pc[t] = "unreg_ret"
        /\ id[t] \in unregistered
        /\ id[t] \in IssuedOn(event[t])
        /\ erased[t] = 0
        /\ Len(VecOf(handlers_, event[t])) >= 1

InDispatchPass(t) == pc[t] \in {"disp_loop", "disp_call", "disp_ret"}
InMutation(t) == pc[t] \in {"reg_body", "reg_ret", "unreg_body", "unreg_ret"}

\* C5: a dispatch never has invoked a handler whose unregisterHandler call on
\* its category had returned, and when some handler of the category was
\* unregistered, a dispatch about to return has invoked the remaining
\* handlers of the category, each once, in priority order.
C5_UnregisteredNotInvoked ==
    \A t \in Threads :
        /\ InDispatchPass(t) =>
              \A k \in 1 .. Len(invoked[t]) : invoked[t][k].id \notin unregistered
        /\ (pc[t] = "disp_ret" /\ IssuedOn(event[t]) \cap unregistered # {}) =>
              RunsEachOnceInOrder(Ids(invoked[t]), event[t], LiveOn(event[t]))

\* C5 witness: H1 (id 1, lower priority) and H2 (id 2, higher priority) on
\* one category; H2 was unregistered; the dispatch invoked only H1.
C5_Witness ==
    \E t \in Threads :
        /\ pc[t] = "disp_ret"
        /\ IssuedOn(event[t]) = {1, 2}
        /\ unregistered = {2}
        /\ Ids(invoked[t]) = <<1>>
        /\ HandlerOf(event[t], 1).priority = 0

\* C6: a dispatch on a category without registrations (no map entry, or an
\* empty list left in the map) goes straight to its return without invoking
\* a handler, and neither step changes the map or the id counter.
C6_NoListenerNoOp ==
    [][\A t \in Threads :
          /\ (pc[t] = "disp_lock" /\ pc'[t] # "disp_lock"
                 /\ VecOf(handlers_, event'[t]) = <<>>) =>
                (pc'[t] = "disp_ret" /\ invoked'[t] = <<>> /\ ~aborted'
                   /\ handlers_' = handlers_ /\ next_id_' = next_id_)
          /\ (pc[t] = "disp_ret" /\ pc'[t] # "disp_ret"
                 /\ VecOf(handlers_, event[t]) = <<>>) =>
                (pc'[t] = "idle" /\ invoked[t] = <<>> /\ ~aborted'
                   /\ handlers_' = handlers_ /\ next_id_' = next_id_)
    ]_vars

\* C6 witness: one thread is returning from a dispatch on a category that
\* has no map entry, another from one on a category whose list was emptied.
C6_Witness ==
    \E t, u \in Threads :
        /\ pc[t] = "disp_ret" /\ ~Found(handlers_, event[t])
        /\ invoked[t] = <<>>
        /\ pc[u] = "disp_ret" /\ Found(handlers_, event[u])
        /\ handlers_[event[u]] = <<>> /\ invoked[u] = <<>>

\* C7: at most one thread is inside the critical section of registerHandler
\* or unregisterHandler, and while one is, no thread is inside the critical
\* section of dispatch.
C7_WriterExcludes ==
    /\ Cardinality({t \in Threads : InMutation(t)}) <= 1
    /\ (\E t \in Threads : InMutation(t)) => ~(\E u \in Threads : InDispatchPass(u))

\* C7 witness: a registerHandler call has inserted and still holds the lock
\* while the other thread waits to dispatch.
C7_Witness ==
    \E t, u \in Threads :
        pc[t] = "reg_ret" /\ pc[u] = "disp_lock"

\* C8: while another thread is dispatching on the same category, a dispatch
\* about to return has invoked the whole list of the category, entry by
\* entry, in priority order: none skipped, none twice, none out of order.
C8_ConcurrentDispatch ==
    \A t \in Threads :
        (pc[t] = "disp_ret"
           /\ \E u \in Threads \ {t} : InDispatchPass(u) /\ event[u] = event[t]) =>
            LET vec == VecOf(handlers_, event[t])
            IN /\ Ids(invoked[t]) = Ids(vec)
               /\ \A j, k \in 1 .. Len(invoked[t]) :
                     j < k => /\ invoked[t][j].id # invoked[t][k].id
                              /\ vec[j].priority >= vec[k].priority

\* C8 witness: both threads are about to return from dispatches on the same
\* category, each having invoked its three handlers.
C8_Witness ==
    \E t, u \in Threads :
        /\ t # u /\ pc[t] = "disp_ret" /\ pc[u] = "disp_ret"
        /\ event[t] = event[u]
        /\ Len(invoked[t]) = 3 /\ Len(invoked[u]) = 3
        /\ handlers_[event[t]][1].priority > handlers_[event[t]][3].priority

\* how many entries of the list a dispatch pass has gone through
Passed(t) ==
    IF pc[t] = "disp_loop" THEN it[t] - 1
    ELSE IF pc[t] = "disp_call" THEN it[t]
    ELSE Len(VecOf(handlers_, event[t]))

\* C9: at every point of a dispatch pass, the handlers invoked so far are the
\* leading entries of the category's list as it stands, without repetition,
\* and at its return they are the complete list: the pass sees one state of
\* the list, whatever register and unregister calls the other threads make.
C9_DispatchSeesOneList ==
    \A t \in Threads :
        InDispatchPass(t) =>
            LET vec == VecOf(handlers_, event[t])
            IN /\ Passed(t) <= Len(vec)
               /\ Ids(invoked[t]) = Ids(SubSeq(vec, 1, Passed(t)))
               /\ \A j, k \in 1 .. Len(invoked[t]) :
                     j # k => invoked[t][j].id # invoked[t][k].id

\* C9 witness: a dispatch is inside its second handler, after an unregister,
\* while the other thread waits for the exclusive lock.
C9_Witness ==
    \E t, u \in Threads :
        /\ pc[t] = "disp_call" /\ Len(invoked[t]) = 2
        /\ unregistered # {}
        /\ pc[u] \in {"reg_lock", "unreg_lock"}

\* C10: on a category holding handlers of different argument type lists, a
\* dispatch invokes only the handlers whose argument type list is the one
\* dispatched, and the mismatch does not bring the process down.
C10_OnlyMatchingInvoked ==
    \A t \in Threads :
        (/\ InDispatchPass(t)
         /\ \E j, k \in 1 .. Len(VecOf(handlers_, event[t])) :
               handlers_[event[t]][j].sig # handlers_[event[t]][k].sig) =>
            /\ ~aborted
            /\ \A k \in 1 .. Len(invoked[t]) :
                  Matches(HandlerOf(event[t], invoked[t][k].id), sig[t])

\* C11: when a handler body throws, the dispatch goes to its error exit and
\* from there back to its caller without invoking anything more; at the error
\* exit the handlers invoked are exactly the entries of the list up to the
\* failing one; the map and the id counter are untouched on the way.
C11_FailFast ==
    [][\A t \in Threads :
          /\ (pc[t] = "disp_call" /\ pc'[t] # "disp_call" /\ it'[t] = it[t]) =>
                (pc'[t] = "disp_unwind" /\ invoked'[t] = invoked[t]
                   /\ handlers_' = handlers_ /\ next_id_' = next_id_)
          /\ pc[t] = "disp_unwind" =>
                /\ it[t] <= Len(handlers_[event[t]])
                /\ Ids(invoked[t]) = Ids(SubSeq(handlers_[event[t]], 1, it[t]))
          /\ (pc[t] = "disp_unwind" /\ pc'[t] # "disp_unwind") =>
                (pc'[t] = "idle" /\ handlers_' = handlers_ /\ next_id_' = next_id_)
    ]_vars

\* C11 witness: the second of three handlers threw; two were invoked.
C11_Witness ==
    \E t \in Threads :
        /\ pc[t] = "disp_unwind"
        /\ Len(handlers_[event[t]]) = 3
        /\ it[t] = 2
        /\ Len(invoked[t]) = 2


\* C12: a thread inside a dispatch pass never keeps another thread's dispatch
\* from taking shared access: whenever one thread is anywhere between having
\* taken the shared lock and releasing it, a second thread waiting to enter
\* dispatch can take the lock at once, and it can go through its whole pass
\* and be at its return while the first is still inside a handler.
C12_DispatchDoesNotBlockDispatch ==
    \A t, u \in Threads :
        (t # u /\ InDispatchPass(t) /\ pc[u] = "disp_lock") =>
            ENABLED DispatchLock(u, AgreedSignatures, OneValue)

\* C12 witness: t is still inside its first handler while u, which shares the
\* lock with it, has run two handlers and stands at its return.
C12_Witness ==
    \E t, u \in Threads :
        /\ t # u
        /\ pc[t] = "disp_call" /\ Len(invoked[t]) = 1
        /\ pc[u] = "disp_ret" /\ Len(invoked[u]) = 2
        /\ {t, u} \subseteq readers


\* C13: dispatch writes nothing of the dispatcher: no step taken by a thread
\* inside dispatch (entering, locking, looking up, calling a handler, returning
\* or leaving by an error) changes the map, any handler list or the id counter,
\* and while a pass is under way no other thread's step changes them either.
C13_DispatchReadsOnly ==
    [][\A t \in Threads :
          /\ ((InDispatch(t) \/ pc[t] = "disp_unwind" \/ pc'[t] = "disp_lock")
                 /\ (pc'[t] # pc[t] \/ it'[t] # it[t])) =>
                (handlers_' = handlers_ /\ next_id_' = next_id_)
          /\ (InDispatchPass(t) \/ pc[t] = "disp_unwind") =>
                (handlers_' = handlers_ /\ next_id_' = next_id_)
    ]_vars

\* C13 witness: a dispatch over three handlers is at its return, with the
\* counter where the third registration left it.
C13_Witness ==
    \E t \in Threads :
        /\ pc[t] = "disp_ret"
        /\ Len(invoked[t]) = 3
        /\ Len(handlers_[event[t]]) = 3
        /\ next_id_ = 4


\* C14: a registration with priority p puts the new handler immediately before
\* the first entry of the category's list whose priority is strictly lower than
\* p, or at the end when there is none; the entries already there keep their
\* relative order and the list grows by exactly one.
C14_InsertPosition ==
    [][\A t \in Threads :
          (pc[t] = "reg_body" /\ pc'[t] = "reg_ret") =>
             LET old == VecOf(handlers_, event[t])
                 new == handlers_'[event[t]]
                 p == priority[t]
                 lower == {k \in 1 .. Len(old) : old[k].priority < p}
                 pos == IF lower = {} THEN Len(old) + 1
                        ELSE CHOOSE k \in lower : \A j \in lower : k <= j
             IN /\ Len(new) = Len(old) + 1
                /\ new[pos] = Handler(next_id_, p, sig[t])
                /\ \A k \in 1 .. Len(old) :
                      old[k] = new[IF k < pos THEN k ELSE k + 1]
    ]_vars

\* C14 witness: the handler just registered stands second of three, after an
\* entry of its own priority and before one of lower priority.
C14_Witness ==
    \E t \in Threads :
        /\ pc[t] = "reg_ret"
        /\ Len(handlers_[event[t]]) = 3
        /\ handlers_[event[t]][2].id = id[t]
        /\ handlers_[event[t]][1].priority = priority[t]
        /\ handlers_[event[t]][3].priority < priority[t]


\* C15: categories are isolated. A registration or an unregistration on one
\* category leaves the presence and the list of every other category as they
\* were; an unregistration whose id was not issued for its category changes
\* nothing at all; and a dispatch on a category invokes only handlers that were
\* registered for that category.
C15_CategoryIsolation ==
    /\ [](\A t \in Threads :
             InDispatchPass(t) =>
                \A k \in 1 .. Len(invoked[t]) :
                    invoked[t][k].id \in IssuedOn(event[t]))
    /\ [][\A t \in Threads :
             /\ (pc[t] \in {"reg_body", "unreg_body"} /\ pc'[t] # pc[t]) =>
                   \A e \in EventType \ {event[t]} :
                       /\ Found(handlers_', e) = Found(handlers_, e)
                       /\ VecOf(handlers_', e) = VecOf(handlers_, e)
             /\ (pc[t] = "unreg_body" /\ pc'[t] # pc[t]
                    /\ id[t] \notin IssuedOn(event[t])) =>
                   handlers_' = handlers_
       ]_vars

\* C15 witness: an unregistration on one category, given an id that is live on
\* the other, went through a non-empty list and erased nothing.
C15_Witness ==
    \E t \in Threads : \E e \in EventType \ {event[t]} :
        /\ pc[t] = "unreg_ret"
        /\ erased[t] = 0
        /\ Len(VecOf(handlers_, event[t])) > 0
        /\ id[t] \in LiveOn(e)
        /\ \E k \in 1 .. Len(VecOf(handlers_, e)) : handlers_[e][k].id = id[t]


\* C16: every handler invoked in a dispatch pass received the argument values
\* of the dispatch call that invoked it: all invocations of one pass carry the
\* pass's own tuple, whatever another thread dispatches at the same time.
C16_ReceivesOwnArgs ==
    \A t \in Threads :
        InDispatchPass(t) =>
            \A k \in 1 .. Len(invoked[t]) : invoked[t][k].arg = tup[t]


\* C17: while unregisterHandler is past its lock (erasing, or about to return)
\* no dispatch pass is under way on any thread, so a pass that was in progress
\* when unregisterHandler was called has finished before the call returns; a
\* handler that is executing is one whose unregistration has not returned; and
\* a pass in progress, which an unregistration can only wait for, arrives at
\* its return having invoked every handler of its category not yet
\* unregistered, the one being removed included.
C17_UnregisterWaitsForPasses ==
    \A t, u \in Threads :
        /\ pc[t] \in {"unreg_body", "unreg_ret"} =>
              (~InDispatchPass(u) /\ readers = {})
        /\ pc[u] = "disp_call" =>
              /\ it[u] <= Len(handlers_[event[u]])
              /\ handlers_[event[u]][it[u]].id \in LiveOn(event[u])
        /\ pc[u] = "disp_ret" =>
              {invoked[u][k].id : k \in 1 .. Len(invoked[u])} = LiveOn(event[u])

\* C17 witness: an unregisterHandler call waits for the lock while a pass on
\* another thread, holding it shared, has invoked both handlers of its
\* category.
C17_Witness ==
    \E t, u \in Threads :
        /\ pc[t] = "unreg_lock"
        /\ pc[u] = "disp_ret" /\ u \in readers
        /\ Len(invoked[u]) = 2
        /\ ~CanLockExclusive


\* C18: a thread that, from inside a handler, has called registerHandler or
\* unregisterHandler stays at that call's lock for ever, still holding the
\* shared lock of its dispatch: from then on no step moves it, and no step
\* moves any thread that waits for the exclusive lock, whenever that thread
\* arrived.
C18_ReentrantMutatorNeverCompletes ==
    [][\A t \in Threads :
          (t \in readers /\ pc[t] \in {"reg_lock", "unreg_lock"}) =>
             /\ pc'[t] = pc[t]
             /\ t \in readers'
             /\ writer' = NoThread
             /\ \A u \in Threads :
                   pc[u] \in {"reg_lock", "unreg_lock"} => pc'[u] = pc[u]
    ]_vars

\* C18 witness: one thread is stuck in a registerHandler called by a handler,
\* and the other thread's later unregisterHandler waits for the lock.
C18_Witness ==
    \E t, u \in Threads :
        /\ t \in readers /\ pc[t] = "reg_lock"
        /\ u \notin readers /\ pc[u] = "unreg_lock"
        /\ next_id_ > 1


\* C19: the lock is released on every exit path. A thread holds the lock
\* exclusively only between taking it and returning from registerHandler or
\* unregisterHandler, and shared only between taking it and leaving dispatch;
\* every step by which a thread leaves an operation (a return, the early
\* return for an unknown category, an error thrown by a handler) leaves that
\* thread holding nothing; so when no thread is inside an operation nobody
\* holds the lock, and a registerHandler call waiting for the lock while the
\* other threads are outside every operation can take it.
C19_LockReleasedOnEveryExit ==
    /\ [](\A t \in Threads :
             /\ writer = t => InMutation(t)
             /\ t \in readers => (InDispatchPass(t) \/ pc[t] = "disp_unwind")
             /\ (\A u \in Threads : pc[u] = "idle") =>
                   (writer = NoThread /\ readers = {})
             /\ (pc[t] = "reg_lock" /\ \A u \in Threads \ {t} : pc[u] = "idle") =>
                   ENABLED RegisterLock(t, AgreedSignatures, Priorities))
    /\ [][\A t \in Threads :
             (pc[t] # "idle" /\ pc'[t] = "idle") =>
                (writer' # t /\ t \notin readers')
       ]_vars

\* C19 witness: a dispatch is leaving by a handler's error, still a shared
\* holder, while a registerHandler call on the other thread waits for the lock.
C19_Witness ==
    \E t, u \in Threads :
        /\ pc[t] = "disp_unwind" /\ readers = {t}
        /\ pc[u] = "reg_lock"


\* C20 as claimed, in the case it singles out: under fair scheduling a
\* registerHandler or unregisterHandler call that waits for exclusive access
\* eventually obtains it even while the other threads keep issuing dispatch
\* calls (the only way it may still be waiting is behind another thread's
\* registerHandler or unregisterHandler, which the claim's general part covers).
C20_MutatorEventuallyLocks ==
    \A t \in Threads :
        (pc[t] \in {"reg_lock", "unreg_lock"}) ~>
           (writer = t \/ \E u \in Threads \ {t} : InRegister(u) \/ InUnregister(u))

\* the lock is held by a call of thread t
Holding(t) == InMutation(t) \/ InDispatchPass(t)

\* C20 as amended: there is no deadlock (while some call is under way some
\* thread inside a call can take a step); under fair scheduling every call
\* that holds the lock eventually returns; and a call waits for the lock only
\* under contention: a waiting registerHandler or unregisterHandler eventually
\* has the lock or finds another thread's call holding it, a waiting dispatch
\* eventually has it or finds another thread's mutation holding it.
C20_NoDeadlockAndHoldersReturn ==
    /\ []((\E t \in Threads : pc[t] # "idle") =>
             \E t \in Threads : ENABLED StepInCall(t))
    /\ \A t \in Threads : Holding(t) ~> (pc[t] = "idle")
    /\ \A t \in Threads :
          (pc[t] \in {"reg_lock", "unreg_lock"}) ~>
             (writer = t \/ \E u \in Threads \ {t} : Holding(u))
    /\ \A t \in Threads :
          (pc[t] = "disp_lock") ~>
             (t \in readers \/ \E u \in Threads \ {t} : InMutation(u))

\* C20 witness: a registerHandler call waits for exclusive access while a
\* dispatch on the other thread is inside its first handler.
C20_Witness ==
    \E t, u \in Threads :
        /\ pc[t] = "reg_lock"
        /\ pc[u] = "disp_call" /\ readers = {u}
        /\ Len(invoked[u]) = 1

====
